---- MODULE Spec2Model ----
(***************************************************************************)
(* PrefPaneUtil.py: lock / unlock OS X System Preferences panes.           *)
(*                                                                         *)
(* One run of the script is one step of the model, taken from the shell    *)
(* prompt; a second step returns to the prompt and forgets the run.  The   *)
(* state between runs is what the script leaves on the host: the two       *)
(* host-wide preference keys, the file /tmp/prefpanes.restore and the      *)
(* console user's own override keys.  The other variables describe the     *)
(* last run: its inputs, the value of locked_panes it read at start-up,    *)
(* the list it validated, its exit status, the ordered side effects and    *)
(* the messages.                                                           *)
(*                                                                         *)
(* Strings are sequences of characters, so that split / strip / rstrip and *)
(* the line format of the restore file are computed as the script does.    *)
(* The catalog is the same in every run, and the subprocesses and the      *)
(* preference calls do not fail.                                           *)
(***************************************************************************)
EXTENDS Integers, Sequences, FiniteSets, TLC

VARIABLES
    DisabledPreferencePanes,  \* host-wide key: None (absent) or Some(list of identifiers)
    HiddenPreferencePanes,    \* host-wide key, written together with the former
    restore_file,             \* /tmp/prefpanes.restore: None (no file) or Some(characters)
    user_keys,                \* override keys present in the console user's own domain
    phase,                    \* "prompt": no run to look at; "exited": a run has ended
    uid,                      \* os.getuid() of the last run
    argv,                     \* sys.argv of the last run (argv[1] is the script name)
    locked_panes,             \* module global read at start-up of the last run
    panes_to_modify,          \* the request after validation, None when not computed
    exit_status,              \* exit status of the last run
    events,                   \* ordered side effects of the last run
    stdout                    \* messages of the lock / unlock loops of the last run

vars == <<DisabledPreferencePanes, HiddenPreferencePanes, restore_file, user_keys,
          phase, uid, argv, locked_panes, panes_to_modify, exit_status, events, stdout>>

\* Python's None, an absent key, a missing file: the empty option.
None == {}
Some(v) == {v}
the(o) == CHOOSE v \in o : TRUE

\* Longest comma separated request the model passes to --lock / --unlock.
MaxReq == 2

\* Longest DisabledPreferencePanes list a run of the model may leave behind.
MaxLocked == 3

-----------------------------------------------------------------------------
(* Characters and strings *)

LF == "LF"
Whitespace == {" ", LF}

\* Request items as typed on the command line: a system pane, a padded third
\* party pane, and an identifier no bundle declares (it holds a line break).
RawTokens == { <<"a">>, <<" ", "b">>, <<"a", LF, "b">> }

RECURSIVE join(_)
join(items) ==
    IF Len(items) = 1 THEN items[1]
    ELSE items[1] \o <<",">> \o join(Tail(items))

Requests == { join(items) : items \in UNION { [1..n -> RawTokens] : n \in 1..MaxReq } }

RECURSIVE split(_, _)
split(s, sep) ==
    IF \A i \in 1..Len(s) : s[i] # sep THEN <<s>>
    ELSE LET i == CHOOSE k \in 1..Len(s) : s[k] = sep /\ \A j \in 1..(k-1) : s[j] # sep
         IN  <<SubSeq(s, 1, i-1)>> \o split(SubSeq(s, i+1, Len(s)), sep)

RECURSIVE rstrip(_)
rstrip(s) ==
    IF s # <<>> /\ s[Len(s)] \in Whitespace THEN rstrip(SubSeq(s, 1, Len(s)-1)) ELSE s

RECURSIVE lstrip(_)
lstrip(s) ==
    IF s # <<>> /\ Head(s) \in Whitespace THEN lstrip(Tail(s)) ELSE s

strip(s) == rstrip(lstrip(s))

\* Iterating a file object: each line up to and including its line break.
RECURSIVE readlines(_)
readlines(data) ==
    IF data = <<>> THEN <<>>
    ELSE IF \A i \in 1..Len(data) : data[i] # LF THEN <<data>>
    ELSE LET i == CHOOSE k \in 1..Len(data) : data[k] = LF /\ \A j \in 1..(k-1) : data[j] # LF
         IN  <<SubSeq(data, 1, i)>> \o readlines(SubSeq(data, i+1, Len(data)))

Range(f) == { f[i] : i \in DOMAIN f }

\* list.remove / NSMutableArray.remove: drop the first occurrence.
remove(list, x) ==
    LET i == CHOOSE k \in 1..Len(list) : list[k] = x /\ \A j \in 1..(k-1) : list[j] # x
    IN  SubSeq(list, 1, i-1) \o SubSeq(list, i+1, Len(list))

-----------------------------------------------------------------------------
(* The catalog *)

system_panes == [Sound |-> <<"a">>]
other_panes  == [Growl |-> <<"b">>]

all_panes == [k \in DOMAIN system_panes \cup DOMAIN other_panes |->
                 IF k \in DOMAIN other_panes THEN other_panes[k] ELSE system_panes[k]]


-----------------------------------------------------------------------------
(* The script's functions.  Each takes the world w as the run has left it so
   far and returns it as the function leaves it; w.code is None while the
   run goes on and the exit status once sys.exit was called. *)

World(D, H, rf, uk) ==
    [D |-> D, H |-> H, rf |-> rf, uk |-> uk,
     ev |-> <<>>, out |-> <<>>, ptm |-> None, code |-> None]

exit(w, status) == [w EXCEPT !.code = Some(status)]

did(w, what) == [w EXCEPT !.ev = Append(@, what)]

modify_panes(w, value) ==
    [w EXCEPT !.D = value, !.H = value,
              !.ev = @ \o << <<"CFPreferencesSetValue", "DisabledPreferencePanes">>,
                             <<"CFPreferencesSetValue", "HiddenPreferencePanes">>,
                             <<"CFPreferencesSynchronize">> >>]

get_bundle_identifiers(w) == did(w, <<"get_bundle_identifiers">>)

RECURSIVE delete_keys(_, _)
delete_keys(w, keys) ==
    IF keys = <<>> THEN w
    ELSE delete_keys(IF Head(keys) \in w.uk
                     THEN [did(w, <<"defaults delete", Head(keys)>>)
                               EXCEPT !.uk = @ \ {Head(keys)}]
                     ELSE w,
                     Tail(keys))

sanity_check(w, current_user) ==
    IF current_user # "root"
    THEN delete_keys(did(w, <<"sanity_check">>),
                     <<"DisabledPreferencePanes", "HiddenPreferencePanes">>)
    ELSE did(w, <<"sanity_check">>)

\* lines 145-149: one entry per distinct requested identifier
valid_id(panes) == [pane \in Range(panes) |-> pane \in Range(all_panes)]

RECURSIVE remove_each(_, _)
remove_each(panes, keys) ==
    IF keys = {} THEN panes
    ELSE LET key == CHOOSE k \in keys : TRUE
         IN  remove_each(remove(panes, key), keys \ {key})

\* lines 150-153: one remove() per identifier whose entry is False
remove_invalid(panes) ==
    remove_each(panes, { key \in DOMAIN valid_id(panes) : ~valid_id(panes)[key] })

\* Variant of exist that looks at the first entry only (the break of line
\* 174 leaving the scan one level too early); C5 tells it from exist.
exist_first_only(new_locked_panes, pane) ==
    new_locked_panes # <<>> /\ new_locked_panes[1] = pane

\* lines 167-174 and 191-196: the scan of new_locked_panes for pane
exist(new_locked_panes, pane) ==
    \E i \in 1..Len(new_locked_panes) : new_locked_panes[i] = pane

\* lines 166-178; st is [list: new_locked_panes, out: messages]
lock_step(st, to_lock) ==
    IF exist(st.list, to_lock)
    THEN [st EXCEPT !.out = Append(@, <<"is already locked, skipping.", to_lock>>)]
    ELSE [list |-> Append(st.list, to_lock),
          out  |-> Append(st.out, <<"is current unlocked, locking.", to_lock>>)]

\* lines 190-198
unlock_step(st, to_unlock) ==
    IF exist(st.list, to_unlock)
    THEN [list |-> remove(st.list, to_unlock),
          out  |-> Append(st.out, <<"is currently locked, unlocking.", to_unlock>>)]
    ELSE st

RECURSIVE lock_loop(_, _)
lock_loop(st, panes) ==
    IF panes = <<>> THEN st ELSE lock_loop(lock_step(st, Head(panes)), Tail(panes))

RECURSIVE unlock_loop(_, _)
unlock_loop(st, panes) ==
    IF panes = <<>> THEN st ELSE unlock_loop(unlock_step(st, Head(panes)), Tail(panes))

\* line 156: initWithArray_(None) gives an empty array
new_locked_panes(lp) == IF lp = None THEN <<>> ELSE the(lp)

\* line 140
parse_request(arg) == [i \in DOMAIN split(arg, ",") |-> strip(split(arg, ",")[i])]

lock_unlock_panes(w, av, lp) ==
    IF Len(av) # 3 THEN exit(w, 1)
    ELSE
    LET panes == remove_invalid(parse_request(av[3]))
        w1    == [w EXCEPT !.ptm = Some(panes)]
        st0   == [list |-> new_locked_panes(lp), out |-> <<>>]
    IN  IF av[2] = "--lock" THEN
            IF lp = None THEN modify_panes(w1, Some(panes))
            ELSE LET st == lock_loop(st0, panes)
                 IN  modify_panes([w1 EXCEPT !.out = st.out], Some(st.list))
        ELSE IF av[2] = "--unlock" THEN
            IF lp = None THEN exit(w1, 1)
            ELSE LET st == unlock_loop(st0, panes)
                 IN  modify_panes([w1 EXCEPT !.out = st.out], Some(st.list))
        ELSE w1

\* lines 211-212
RECURSIVE write_lines(_)
write_lines(panes) ==
    IF panes = <<>> THEN <<>> ELSE Head(panes) \o <<LF>> \o write_lines(Tail(panes))

\* Variant of unlock_all without the exit of lines 203-205; C7 tells it
\* from unlock_all.
unlock_all_unguarded(w, lp) ==
    LET w1 == IF w.rf # None THEN did(w, <<"os.remove", "/tmp/prefpanes.restore">>)
              ELSE w
        w2 == [did(w1, <<"write", "/tmp/prefpanes.restore">>)
                   EXCEPT !.rf = Some(write_lines(new_locked_panes(lp)))]
    IN  modify_panes(w2, None)

unlock_all(w, lp) ==
    IF lp = None THEN exit(w, 1)
    ELSE LET w1 == IF w.rf # None THEN did(w, <<"os.remove", "/tmp/prefpanes.restore">>)
                   ELSE w
             w2 == [did(w1, <<"write", "/tmp/prefpanes.restore">>)
                        EXCEPT !.rf = Some(write_lines(the(lp)))]
         IN  modify_panes(w2, None)

\* lines 231-233
restore_locks(data) == [i \in DOMAIN readlines(data) |-> rstrip(readlines(data)[i])]

\* Variant of restore_all without the os.remove of line 239; C9 tells it
\* from restore_all.
restore_all_keeps_file(w) ==
    IF w.rf = None THEN exit(w, 1)
    ELSE modify_panes(w, Some(restore_locks(the(w.rf))))

restore_all(w) ==
    IF w.rf = None THEN exit(w, 1)
    ELSE LET w1 == modify_panes(w, Some(restore_locks(the(w.rf))))
         IN  [did(w1, <<"os.remove", "/tmp/prefpanes.restore">>) EXCEPT !.rf = None]

list_current_locked(w, lp) == IF lp = None THEN exit(w, 1) ELSE w

\* Variant of main whose --restore branch leaves out the sanity_check of
\* line 269; C10 tells it from main.
main_restore_unchecked(w0, u, av, lp, current_user) ==
    LET w == did(w0, <<"getuid">>)
    IN  IF u # 0 THEN exit(w, 1)
        ELSE IF Len(av) = 1 THEN exit(w, 0)
        ELSE IF av[2] = "--list" THEN get_bundle_identifiers(w)
        ELSE IF av[2] = "--locked" THEN list_current_locked(w, lp)
        ELSE IF av[2] \in {"--unlock", "--lock"}
             THEN lock_unlock_panes(sanity_check(get_bundle_identifiers(w), current_user),
                                    av, lp)
        ELSE IF av[2] = "--restore" THEN restore_all(w)
        ELSE IF av[2] = "--unlockall" THEN unlock_all(sanity_check(w, current_user), lp)
        ELSE w

main(w0, u, av, lp, current_user) ==
    LET w == did(w0, <<"getuid">>)
    IN  IF u # 0 THEN exit(w, 1)
        ELSE IF Len(av) = 1 THEN exit(w, 0)
        ELSE IF av[2] = "--list" THEN get_bundle_identifiers(w)
        ELSE IF av[2] = "--locked" THEN list_current_locked(w, lp)
        ELSE IF av[2] \in {"--unlock", "--lock"}
             THEN lock_unlock_panes(sanity_check(get_bundle_identifiers(w), current_user),
                                    av, lp)
        ELSE IF av[2] = "--restore" THEN restore_all(sanity_check(w, current_user))
        ELSE IF av[2] = "--unlockall" THEN unlock_all(sanity_check(w, current_user), lp)
        ELSE w

-----------------------------------------------------------------------------
(* Runs *)

Script == "./PrefPaneUtil.py"
ConsoleUsers == {"root", "user"}
OverrideKeys == {"DisabledPreferencePanes", "HiddenPreferencePanes"}

\* Command lines of --lock / --unlock: no list, one list, one list too many.
ListArgv(cmd) ==
    { <<Script, cmd>> } \cup { <<Script, cmd, r>> : r \in Requests }
                          \cup { <<Script, cmd, <<"a">>, <<"b">> >> }

OtherArgv ==
    { <<Script>>, <<Script, "--list">>, <<Script, "--locked">>, <<Script, "--restore">>,
      <<Script, "--unlockall">>, <<Script, "-h">>, <<Script, "--help">>,
      <<Script, "--bogus">> }

\* The shell is at its prompt: a run can start.
AtPrompt == phase = "prompt"

Run(u, av, current_user) ==
    \* lp: line 18, read before anything else; w: the world as main leaves it
    \E lp \in {DisabledPreferencePanes} :
    \E w \in {main(World(DisabledPreferencePanes, HiddenPreferencePanes,
                         restore_file, user_keys), u, av, lp, current_user)} :
        /\ phase' = "exited"
        /\ w.D # None => Len(the(w.D)) <= MaxLocked
        /\ DisabledPreferencePanes' = w.D
        /\ HiddenPreferencePanes' = w.H
        /\ restore_file' = w.rf
        /\ user_keys' = w.uk
        /\ uid' = u
        /\ argv' = av
        /\ locked_panes' = lp
        /\ panes_to_modify' = w.ptm
        /\ exit_status' = IF w.code = None THEN 0 ELSE the(w.code)
        /\ events' = w.ev
        /\ stdout' = w.out

Init ==
    /\ DisabledPreferencePanes = None
    /\ HiddenPreferencePanes = None
    /\ restore_file = None
    /\ user_keys = OverrideKeys
    /\ phase = "prompt"
    /\ uid = 0
    /\ argv = <<Script>>
    /\ locked_panes = None
    /\ panes_to_modify = None
    /\ exit_status = 0
    /\ events = <<>>
    /\ stdout = <<>>

\* Back at the shell prompt: what the run reported is gone, what it wrote stays.
Prompt ==
    /\ phase = "exited"
    /\ phase' = "prompt"
    /\ uid' = 0
    /\ argv' = <<Script>>
    /\ locked_panes' = None
    /\ panes_to_modify' = None
    /\ exit_status' = 0
    /\ events' = <<>>
    /\ stdout' = <<>>
    /\ UNCHANGED <<DisabledPreferencePanes, HiddenPreferencePanes, restore_file, user_keys>>

NotSuperuser ==
    /\ AtPrompt
    /\ \E av \in OtherArgv \cup { <<Script, "--lock", <<"a">> >>, <<Script, "--unlock", <<"a">> >>,
                               <<Script, "--lock">> } :
        \E cu \in ConsoleUsers : Run(501, av, cu)

Help ==
    /\ AtPrompt
    /\ \E av \in { <<Script>>, <<Script, "-h">>, <<Script, "--help">>, <<Script, "--bogus">> } :
           \E cu \in ConsoleUsers : Run(0, av, cu)

List ==
    /\ AtPrompt
    /\ \E cu \in ConsoleUsers : Run(0, <<Script, "--list">>, cu)

Locked ==
    /\ AtPrompt
    /\ \E cu \in ConsoleUsers : Run(0, <<Script, "--locked">>, cu)

Lock ==
    /\ AtPrompt
    /\ \E av \in ListArgv("--lock") : \E cu \in ConsoleUsers : Run(0, av, cu)

Unlock ==
    /\ AtPrompt
    /\ \E av \in ListArgv("--unlock") : \E cu \in ConsoleUsers : Run(0, av, cu)

UnlockAll ==
    /\ AtPrompt
    /\ \E cu \in ConsoleUsers : Run(0, <<Script, "--unlockall">>, cu)

Restore ==
    /\ AtPrompt
    /\ \E cu \in ConsoleUsers : Run(0, <<Script, "--restore">>, cu)

Next ==
    \/ NotSuperuser
    \/ Help
    \/ List
    \/ Locked
    \/ Lock
    \/ Unlock
    \/ UnlockAll
    \/ Restore
    \/ Prompt

Spec == Init /\ [][Next]_vars

-----------------------------------------------------------------------------
(* Vocabulary of the properties *)

cmd_of(av) == IF Len(av) >= 2 THEN av[2] ELSE ""

\* A run by the superuser has ended and can be looked at.
RanAsRoot == phase = "exited" /\ uid = 0

\* A --lock / --unlock run that got its list argument.
RanWithList(cmd) == RanAsRoot /\ cmd_of(argv) = cmd /\ Len(argv) = 3

Catalog == Range(all_panes)

NoDuplicates(list) ==
    \A i, j \in 1..Len(list) : i # j => list[i] # list[j]

IsPrefix(p, list) == Len(p) <= Len(list) /\ SubSeq(list, 1, Len(p)) = p

\* The identifiers of list in order of first occurrence.
RECURSIVE Distinct(_)
Distinct(list) ==
    IF list = <<>> THEN <<>>
    ELSE LET front == Distinct(SubSeq(list, 1, Len(list) - 1))
             last  == list[Len(list)]
         IN  IF last \in Range(front) THEN front ELSE Append(front, last)

\* list without every entry that is in gone, the rest in order.
RECURSIVE Without(_, _)
Without(list, gone) ==
    IF list = <<>> THEN <<>>
    ELSE IF Head(list) \in gone THEN Without(Tail(list), gone)
    ELSE <<Head(list)>> \o Without(Tail(list), gone)

\* The list a key holds, an absent key holding none.
Listed(key) == IF key = None THEN <<>> ELSE the(key)

IsWrite(e) == e[1] \in {"CFPreferencesSetValue", "write", "os.remove"}

Here == World(DisabledPreferencePanes, HiddenPreferencePanes, restore_file, user_keys)

-----------------------------------------------------------------------------
(* C1: starting from an absent DisabledList, after any sequence of --lock,
   --unlock, --unlockall and --restore runs the DisabledList never holds the
   same identifier twice. *)
C1_NoDuplicates ==
    DisabledPreferencePanes # None => NoDuplicates(the(DisabledPreferencePanes))

(* C2: after validation the list of panes to modify holds no identifier
   that is not a catalog value, and a --lock adds no such identifier to the
   DisabledList. *)
C2_InvalidExcluded ==
    /\ (phase = "exited" /\ panes_to_modify # None)
           => Range(the(panes_to_modify)) \subseteq Catalog
    /\ RanWithList("--lock")
           => Range(Listed(DisabledPreferencePanes)) \ Range(Listed(locked_panes))
                  \subseteq Catalog

(* C3: --lock of a request L of catalog identifiers none of which is in the
   current list D writes D followed by the identifiers of L in input order,
   |D| + |L| entries; and in every case what was in D stays in front, in
   order. *)
C3_LockAppends ==
    RanWithList("--lock") =>
        LET D == Listed(locked_panes)
            L == parse_request(argv[3])
            R == Listed(DisabledPreferencePanes)
        IN  /\ DisabledPreferencePanes # None
            /\ IsPrefix(D, R)
            /\ (Range(L) \subseteq Catalog /\ Range(L) \cap Range(D) = {})
                   => /\ R = D \o Distinct(L)
                      /\ Len(R) = Len(D) + Cardinality(Range(L))

\* Where C3 does hold: requests that name no identifier twice.
C3_WithoutRepeats ==
    (RanWithList("--lock") /\ NoDuplicates(parse_request(argv[3])))
        => C3_LockAppends

(* C4: --unlock of a request L of catalog identifiers on a list D that is
   not absent succeeds and writes D without the members of L, the rest in
   order; |D| - |L| entries when every member of L is in D. *)
C4_UnlockRemoves ==
    (RanWithList("--unlock") /\ locked_panes # None) =>
        LET D == the(locked_panes)
            L == parse_request(argv[3])
            R == Listed(DisabledPreferencePanes)
        IN  Range(L) \subseteq Catalog
                => /\ exit_status = 0
                   /\ DisabledPreferencePanes # None
                   /\ R = Without(D, Range(L))
                   /\ Range(L) \subseteq Range(D)
                          => Len(R) = Len(D) - Cardinality(Range(L))

\* Where C4 does hold: lists that hold no identifier twice.
C4_WithoutDuplicates ==
    (locked_panes # None /\ NoDuplicates(the(locked_panes))) => C4_UnlockRemoves

(* C5: locking is idempotent: once --lock L has run, running --lock L again
   leaves the DisabledList as it is, skips every identifier as already
   locked and appends nothing; and a --lock run whose identifiers were all
   locked already has written the list back unchanged. *)
C5_LockIdempotent ==
    RanWithList("--lock") =>
        /\ \A cu \in ConsoleUsers :
               \A again \in {main(Here, 0, argv, DisabledPreferencePanes, cu)} :
                   /\ again.code = None
                   /\ again.D = DisabledPreferencePanes
                   /\ \A i \in 1..Len(again.out) :
                          again.out[i][1] = "is already locked, skipping."
        /\ (locked_panes # None
              /\ Range(the(panes_to_modify)) \subseteq Range(the(locked_panes)))
               => /\ DisabledPreferencePanes = locked_panes
                  /\ Len(stdout) = Len(the(panes_to_modify))
                  /\ \A i \in 1..Len(stdout) : stdout[i][1] = "is already locked, skipping."

\* A second --lock of two identifiers has skipped both and changed nothing.
C5_Witness ==
    /\ RanWithList("--lock")
    /\ locked_panes # None
    /\ Cardinality(Range(the(panes_to_modify))) = 2
    /\ Len(stdout) = 2
    /\ \A i \in 1..Len(stdout) : stdout[i][1] = "is already locked, skipping."
    /\ DisabledPreferencePanes = locked_panes

(* C6: --unlockall on a list D that is not absent saves D as the snapshot
   and leaves the key absent, and a --restore run right after it writes a
   list equal to D. *)
C6_RoundTrip ==
    (RanAsRoot /\ cmd_of(argv) = "--unlockall" /\ locked_panes # None) =>
        /\ exit_status = 0
        /\ DisabledPreferencePanes = None
        /\ restore_file # None
        /\ \A cu \in ConsoleUsers :
               main(Here, 0, <<Script, "--restore">>, DisabledPreferencePanes, cu).D
                   = locked_panes

\* Where C6 does hold: lists whose identifiers hold no line break.
C6_WithoutLineBreaks ==
    (locked_panes # None
       /\ \A i \in 1..Len(the(locked_panes)) : LF \notin Range(the(locked_panes)[i]))
        => C6_RoundTrip

\* A run is one step from the prompt to "exited".
IsRun == phase = "prompt" /\ phase' = "exited"

NoWriteEvent(ev) == \A i \in 1..Len(ev) : ~IsWrite(ev[i])

(* C7: a run by the superuser that meets a fatal precondition failure
   (--unlock or --unlockall with the DisabledList absent, --restore with no
   snapshot file, --lock or --unlock with a wrong argument count) exits with
   status 1 and leaves both preference keys and the snapshot file as they
   were. *)
C7_FatalNoWrite ==
    [][ (/\ IsRun
         /\ uid' = 0
         /\ \/ cmd_of(argv') \in {"--unlock", "--unlockall"} /\ DisabledPreferencePanes = None
            \/ cmd_of(argv') = "--restore" /\ restore_file = None
            \/ cmd_of(argv') \in {"--lock", "--unlock"} /\ Len(argv') # 3)
        => /\ exit_status' = 1
           /\ NoWriteEvent(events')
           /\ UNCHANGED <<DisabledPreferencePanes, HiddenPreferencePanes, restore_file>> ]_vars

\* --unlockall with nothing locked has failed and an earlier snapshot is still there.
C7_Witness ==
    /\ RanAsRoot
    /\ cmd_of(argv) = "--unlockall"
    /\ locked_panes = None
    /\ exit_status = 1
    /\ restore_file # None
    /\ DisabledPreferencePanes = None

(* C8: an --unlock that removes the last remaining identifier leaves the
   DisabledList absent, so that an --unlockall run on a list without
   identifiers fails with status 1 and saves no snapshot. *)
C8_EmptyIsAbsent ==
    /\ (RanWithList("--unlock") /\ exit_status = 0
          /\ Listed(locked_panes) # <<>> /\ Listed(DisabledPreferencePanes) = <<>>)
           => DisabledPreferencePanes = None
    /\ (RanAsRoot /\ cmd_of(argv) = "--unlockall" /\ Listed(locked_panes) = <<>>)
           => exit_status = 1 /\ NoWriteEvent(events)

(* C9: the snapshot file changes only in a successful --unlockall, which
   sets it to the list it found (replacing an earlier snapshot), and in a
   successful --restore, which deletes it; --restore without a snapshot
   file exits with status 1; no other run touches the file. *)
C9_SnapshotLifecycle ==
    [][ /\ restore_file' # restore_file
            => /\ IsRun /\ uid' = 0 /\ exit_status' = 0
               /\ \/ /\ cmd_of(argv') = "--unlockall"
                     /\ DisabledPreferencePanes # None
                     /\ restore_file' = Some(write_lines(the(DisabledPreferencePanes)))
                  \/ /\ cmd_of(argv') = "--restore"
                     /\ restore_file' = None
        /\ (IsRun /\ uid' = 0 /\ cmd_of(argv') = "--restore")
            => IF restore_file = None
               THEN exit_status' = 1 /\ restore_file' = None
               ELSE exit_status' = 0 /\ restore_file' = None
        /\ (IsRun /\ uid' = 0 /\ cmd_of(argv') = "--unlockall"
              /\ DisabledPreferencePanes # None)
            => /\ exit_status' = 0
               /\ restore_file' = Some(write_lines(the(DisabledPreferencePanes))) ]_vars

\* A second --unlockall has replaced the snapshot of an earlier one.
C9_Witness ==
    /\ RanAsRoot
    /\ cmd_of(argv) = "--unlockall"
    /\ exit_status = 0
    /\ \E i \in 1..Len(events) : events[i] = <<"os.remove", "/tmp/prefpanes.restore">>
    /\ restore_file = Some(write_lines(the(locked_panes)))

(* C10: in every run a write to the preference store or to the snapshot
   file comes after the superuser check has passed and sanity_check has
   run; a run by another user exits with status 1 after the check of the
   user id, before any write, catalog enumeration or session-guard action. *)
C10_GuardOrdering ==
    [][ IsRun =>
        /\ events'[1] = <<"getuid">>
        /\ \A i \in 1..Len(events') :
               (IsWrite(events'[i]) \/ events'[i][1] = "defaults delete")
                   => /\ uid' = 0
                      /\ \E j \in 1..(i-1) : events'[j] = <<"sanity_check">>
        /\ <<DisabledPreferencePanes, HiddenPreferencePanes, restore_file>>'
               # <<DisabledPreferencePanes, HiddenPreferencePanes, restore_file>>
               => \E i \in 1..Len(events') : IsWrite(events'[i])
        /\ user_keys' # user_keys
               => \E i \in 1..Len(events') : events'[i][1] = "defaults delete"
        /\ uid' # 0
               => /\ exit_status' = 1
                  /\ events' = << <<"getuid">> >>
                  /\ UNCHANGED <<DisabledPreferencePanes, HiddenPreferencePanes,
                                 restore_file, user_keys>> ]_vars

\* A --restore by the superuser has cleared the console user's overrides
\* and then written the keys.
C10_Witness ==
    /\ RanAsRoot
    /\ cmd_of(argv) = "--restore"
    /\ exit_status = 0
    /\ \E i, j \in 1..Len(events) :
           /\ i < j
           /\ events[i][1] = "defaults delete"
           /\ events[j][1] = "CFPreferencesSetValue"

=============================================================================
